---- MODULE Spec2Model ----
(***************************************************************************)
(* Model of cmd/sourced/cmd/web.go: OpenUI, the fail-fast pre-check, the   *)
(* service discovery and per-service monitors, the address / readiness     *)
(* pipeline, the shared unbuffered channel, the timeout and the spinner.   *)
(*                                                                         *)
(* Text (command output, service names, addresses, URLs) is a sequence of  *)
(* one-character strings, so that TrimSpace, Split, Replace, HasPrefix and *)
(* the stateExtractor regular expression are computed as the code does.    *)
(***************************************************************************)
EXTENDS Integers, Sequences, FiniteSets, TLC

\* ------------------------------------------------------------------ bounds
\* Port queries the polling discovery may issue in one run.
MaxPolls == 2
\* HTTP probes the readiness loop may issue in one run.
MaxProbes == 2
\* Status queries one monitor may issue in one run.
MaxTicks == 2
\* A timeout above the spinner threshold.
LongTimeout == 6

\* ------------------------------------------------------- program constants
\* webCmd.Execute: OpenUI(2 * time.Second)
WebTimeout == 2
\* OpenUI: if timeout > 5*time.Second
SpinnerThreshold == 5

Timeouts == {WebTimeout, LongTimeout}

\* -------------------------------------------------------------------- text
NL == "\n"

containerName == <<"s","o","u","r","c","e","d","-","u","i">>
BindAll == <<"0",".","0",".","0",".","0">>
Loopback == <<"1","2","7",".","0",".","0",".","1">>
HttpScheme == <<"h","t","t","p",":","/","/">>
PortSuffix == <<":","8","0","8","8">>
LanHost == <<"1","9","2",".","1","6","8",".","1",".","5">>
ghsync == <<"g","h","s","y","n","c">>
gitcollector == <<"g","i","t","c","o","l","l","e","c","t","o","r">>
bblfsh == <<"b","b","l","f","s","h">>
SrcdPrefix == <<"s","r","c","d","-">>
UpWord == <<"U","p">>
ExitWord == <<"E","x","i","t">>
ExitSpace == <<"E","x","i","t"," ">>
Zero == <<"0">>

\* unicode.IsSpace on the characters that occur in command output
IsSpace(c) == c \in {" ", NL, "\t", "\r"}

\* \w of the regular expression ([\w\d] is the same class)
WordChars ==
    {"a","b","c","d","e","f","g","h","i","j","k","l","m","n","o","p","q","r",
     "s","t","u","v","w","x","y","z","A","B","C","D","E","F","G","H","I","J",
     "K","L","M","N","O","P","Q","R","S","T","U","V","W","X","Y","Z","0","1",
     "2","3","4","5","6","7","8","9","_"}

IsWord(c) == c \in WordChars

Drop(s, n) == SubSeq(s, n + 1, Len(s))

RECURSIVE TrimLeft(_)
TrimLeft(s) ==
    IF s # <<>> /\ IsSpace(Head(s)) THEN TrimLeft(Tail(s)) ELSE s

RECURSIVE TrimRight(_)
TrimRight(s) ==
    IF s # <<>> /\ IsSpace(s[Len(s)])
    THEN TrimRight(SubSeq(s, 1, Len(s) - 1))
    ELSE s

\* strings.TrimSpace
TrimSpace(s) == TrimRight(TrimLeft(s))

\* strings.HasPrefix
HasPrefix(s, p) == Len(s) >= Len(p) /\ SubSeq(s, 1, Len(p)) = p

\* strings.Index, 1-based; 0 when sub does not occur in s
Index(s, sub) ==
    LET At == {i \in 1..(Len(s) - Len(sub) + 1) :
                  SubSeq(s, i, i + Len(sub) - 1) = sub}
    IN IF At = {} THEN 0 ELSE CHOOSE i \in At : \A j \in At : i <= j

\* strings.Replace(s, old, new, 1): the first occurrence only
ReplaceFirst(s, old, new) ==
    LET i == Index(s, old)
    IN IF i = 0 THEN s
       ELSE SubSeq(s, 1, i - 1) \o new \o Drop(s, i + Len(old) - 1)

\* strings.Split(s, sep) for a non-empty sep: Split("", sep) is [""]
RECURSIVE Split(_, _)
Split(s, sep) ==
    LET i == Index(s, sep)
    IN IF i = 0 THEN <<s>>
       ELSE <<SubSeq(s, 1, i - 1)>> \o Split(Drop(s, i + Len(sep) - 1), sep)

\* ------------------------------------------------------- stateExtractor
\* (?m)^srcd-[\w\d]+.*(Up|Exit (\w+)) on one line (. does not match \n).

\* length of the longest run of word characters of s that starts at p
RECURSIVE WordRun(_, _)
WordRun(s, p) ==
    IF p <= Len(s) /\ IsWord(s[p]) THEN 1 + WordRun(s, p + 1) ELSE 0

\* the literal w occurs in s at position p
LitAt(s, p, w) ==
    p + Len(w) - 1 <= Len(s) /\ SubSeq(s, p, p + Len(w) - 1) = w

\* the text group 1 captures when it starts at p, <<>> when it cannot
GroupAt(line, p) ==
    IF LitAt(line, p, UpWord) THEN UpWord
    ELSE IF LitAt(line, p, ExitSpace) /\ WordRun(line, p + 5) >= 1
         THEN SubSeq(line, p, p + 4 + WordRun(line, p + 5))
         ELSE <<>>

\* group 1 of the match on one line, <<>> when the line does not match:
\* both quantifiers are greedy, so the group starts as far right as it can
LineState(line) ==
    IF HasPrefix(line, SrcdPrefix) /\ Len(line) >= 6 /\ IsWord(line[6])
    THEN LET P == {p \in 7..Len(line) : GroupAt(line, p) # <<>>}
         IN IF P = {} THEN <<>>
            ELSE GroupAt(line, CHOOSE p \in P : \A q \in P : q <= p)
    ELSE <<>>

RECURSIVE StatesOf(_)
StatesOf(lines) ==
    IF lines = <<>> THEN <<>>
    ELSE LET st == LineState(Head(lines))
         IN (IF st = <<>> THEN <<>> ELSE <<st>>) \o StatesOf(Tail(lines))

\* stateExtractor.FindAllStringSubmatch(text, -1), group 1 of every match
FindAllStates(text) == StatesOf(Split(text, <<NL>>))


\* ------------------------------------------------------------ error values
\* An error is a record of its message's parts; NilErr is Go's nil error and
\* NoErr the absence of any value.
Err(k, s, d, a) == [kind |-> k, service |-> s, detail |-> d, after |-> a]

NoErr == Err("none", <<>>, <<>>, 0)
NilErr == Err("nil", <<>>, <<>>, 0)

\* the error compose.RunWithIO returned, passed on unchanged by checkFailFast
RunErr(k) == Err(k, <<>>, <<>>, 0)

\* errors.Wrapf(err, "cannot get status service %s", service)
StatusErr(service) == Err("cannot get status service", service, <<>>, 0)

\* fmt.Errorf("service '%s' is in state '%s'", service, state)
StateErr(service, state) == Err("is in state", service, state, 0)

\* fmt.Errorf("service '%s' exited with return code: %s", service, returnCode)
ExitErr(service, returnCode) ==
    Err("exited with return code", service, returnCode, 0)

\* errors.Wrap(err, "cannot get list of services")
ServicesErr == Err("cannot get list of services", <<>>, <<>>, 0)

\* fmt.Errorf("could not find the public port of %s", containerName)
PortErr == Err("could not find the public port", containerName, <<>>, 0)

\* errors.Wrap(err, "could not open the browser")
BrowserErr == Err("could not open the browser", <<>>, <<>>, 0)

\* fmt.Errorf("error opening the UI, the container is not running after %v",
\* timeout): the message text names the container, %v the duration
TimeoutErr(d) == Err("the container is not running after", <<>>, <<>>, d)

\* ------------------------------------------------- compose.RunWithIO results
\* Error kinds of a port query: nil, the three environment kinds, any other.
EnvKinds == {"ErrMalformed", "ErrNotExist", "ErrNotValid"}
ErrKinds == {"nil", "other"} \cup EnvKinds

\* waitForContainer treats every error alike: its queries draw one failing kind.
PollKinds == {"nil", "other"}

\* What a successful `port sourced-ui 8088` writes: a mapping, or an empty line
\* when the port is not published.
PortOkOutputs ==
    {BindAll \o PortSuffix \o <<NL>>, LanHost \o PortSuffix \o <<NL>>, <<NL>>}

\* What a failed query may have written to stdout before it failed.
PortFailOutputs == {<<>>, <<"E", NL>>}

PortOutputs(k) == IF k = "nil" THEN PortOkOutputs ELSE PortFailOutputs

\* What a successful `config --services` writes.
ServicesOutputs ==
    {ghsync \o <<NL>> \o bblfsh \o <<NL>>, bblfsh \o <<NL>>, <<>>}

PsHeader == <<"N","a","m","e"," ","S","t","a","t","e",NL>>
PsName == SrcdPrefix \o <<"a","_","1"," "," ">>

\* What a successful `ps <service>` writes: nothing, the header alone, or the
\* header and the container's line(s).
PsOutputs ==
    {<<>>,
     PsHeader,
     PsHeader \o PsName \o <<"P","a","u","s","e","d",NL>>,
     PsHeader \o PsName \o UpWord \o <<NL>>,
     PsHeader \o PsName \o ExitSpace \o <<"0"," "," ",NL>>,
     PsHeader \o PsName \o ExitSpace \o <<"1","3","7",NL>>,
     PsHeader \o PsName \o UpWord \o <<NL>> \o PsName \o ExitSpace \o <<"0",NL>>}

\* What a failed `ps <service>` may have written to stdout before it failed.
PsFailOutputs == {<<>>, PsHeader \o PsName \o ExitSpace \o <<"1",NL>>}

\* ------------------------------------------------------------------- state
VARIABLES
    timeout,        \* OpenUI's argument
    mainPc,         \* where OpenUI is
    result,         \* the error OpenUI returns (NoErr until decided)
    preErr,         \* error kind of the pre-check query ("none" before it)
    containerReady, \* OpenUI's local
    stdout,         \* the bytes.Buffer shared by checkFailFast and the pipeline
    portQueries,    \* `port sourced-ui 8088` queries issued
    lastPort,       \* the latest of them: <<error kind, what it wrote>>
    discPc,         \* the discovery goroutine of runMonitor
    configQueries,  \* `config --services` queries issued
    services,       \* the discovered list (<<>> before discovery succeeds)
    monPc,          \* one entry per spawned runMonitorService goroutine
    monTicks,       \* `ps <service>` queries issued by each monitor
    pipePc,         \* the address / readiness goroutine
    address,        \* its local
    probeCount,     \* HTTP probes issued
    probed,         \* the URLs whose probe received a response
    opened,         \* URLs handed to browser.OpenURL so far
    openedAt,       \* mainPc at each of those calls
    sendq,          \* goroutines blocked in a send on ch, oldest first
    firstSend,      \* the first send executed on ch (NoSendYet before it)
    sendCount,      \* sends executed on ch by each goroutine that sent
    received,       \* the values OpenUI received from ch
    timer,          \* the time.After timer
    spinPc,         \* the spinner's printLoop goroutine
    stopCalls       \* calls of the spinner's Stop

mainVars == <<timeout, mainPc, result, preErr, containerReady>>
portVars == <<stdout, portQueries, lastPort>>
discVars == <<discPc, configQueries, services>>
monVars == <<monPc, monTicks>>
pipeVars == <<pipePc, address, probeCount, probed, opened, openedAt>>
chanVars == <<sendq, firstSend, sendCount, received>>
spinVars == <<spinPc, stopCalls>>
vars == <<mainVars, portVars, discVars, monVars, pipeVars, chanVars, timer,
          spinVars>>

\* the senders on ch
DiscId == <<"disc", 0>>
PipeId == <<"pipe", 0>>
MonId(i) == <<"mon", i>>
NoId == <<"none", 0>>

NoSendYet == [from |-> NoId, val |-> NoErr, late |-> FALSE]

Init ==
    /\ timeout \in Timeouts
    /\ mainPc = "precheck"
    /\ result = NoErr
    /\ preErr = "none"
    /\ containerReady = FALSE
    /\ stdout = <<>>
    /\ portQueries = 0
    /\ lastPort = <<"none", <<>>>>
    /\ discPc = "idle"
    /\ configQueries = 0
    /\ services = <<>>
    /\ monPc = <<>>
    /\ monTicks = <<>>
    /\ pipePc = "idle"
    /\ address = <<>>
    /\ probeCount = 0
    /\ probed = {}
    /\ opened = <<>>
    /\ openedAt = <<>>
    /\ sendq = <<>>
    /\ firstSend = NoSendYet
    /\ sendCount = <<>>
    /\ received = <<>>
    /\ timer = "idle"
    /\ spinPc = "off"
    /\ stopCalls = 0

\* ---------------------------------------------------------------- channel
\* ch is unbuffered (make(chan error)): a send completes only when OpenUI
\* receives it. OpenUI receives in its select alone, so a send completes at
\* once when OpenUI is parked in the select and waits in ch's send queue
\* otherwise. The runtime serves that queue oldest first.

\* variant: the receive stays open after OpenUI left the select
ReceivingAfterLeave(pc) == pc \in {"parked", "stopping", "done"}

\* OpenUI is parked in the select, ready to receive
Receiving(pc) == pc = "parked"

\* variant: the receive takes the newest waiting sender
NextSenderNewest(q) == Len(q)

\* the waiting sender the select's receive takes
NextSender(q) == 1

\* variant: stopSpinner is not deferred
LeaveWithoutStop ==
    /\ mainPc' = "done"
    /\ stopCalls' = stopCalls

\* OpenUI, lines 194 and 198-201: a case of the select returns; the deferred
\* stopSpinner, when registered, runs first and sends on s.stop
Leave ==
    /\ mainPc' = IF spinPc = "off" THEN "done" ELSE "stopping"
    /\ stopCalls' = IF spinPc = "off" THEN stopCalls ELSE stopCalls + 1

\* variant: the return after the send is missing
AfterSendKeepsLooping == "poll"

\* where a goroutine is after it executed its send
AfterSend == IF Receiving(mainPc) THEN "done" ELSE "blocked"

\* goroutine g executes ch <- v
Send(g, v) ==
    /\ firstSend' = IF firstSend = NoSendYet
                    THEN [from |-> g, val |-> v, late |-> timer = "fired"]
                    ELSE firstSend
    /\ sendCount' = IF g \in DOMAIN sendCount
                    THEN [sendCount EXCEPT ![g] = @ + 1]
                    ELSE sendCount @@ (g :> 1)
    /\ IF Receiving(mainPc)
       THEN /\ received' = Append(received, v)
            /\ result' = v
            /\ Leave
            /\ sendq' = sendq
       ELSE /\ sendq' = Append(sendq, [from |-> g, val |-> v])
            /\ UNCHANGED <<received, result, mainPc, stopCalls>>

NoSend ==
    UNCHANGED <<sendq, firstSend, sendCount, received, result, mainPc,
                stopCalls>>

\* --------------------------------------------------------- checkFailFast
\* variant: the invalid-directory kind is not tested
IsFailFastMissingKind(k) == k \in {"ErrMalformed", "ErrNotExist"}

\* workdir.ErrMalformed.Is(err) || dir.ErrNotExist.Is(err) || dir.ErrNotValid.Is(err)
IsFailFast(k) == k \in {"ErrMalformed", "ErrNotExist", "ErrNotValid"}

\* variant: the pre-check's success is forgotten
ReadyNever(k) == FALSE

\* containerReady := err == nil
Ready(k) == k = "nil"

\* OpenUI, lines 160-164: the synchronous pre-check
PreCheck ==
    /\ mainPc = "precheck"
    /\ portQueries' = portQueries + 1
    /\ \E k \in ErrKinds : \E out \in PortOutputs(k) :
          /\ stdout' = stdout \o out
          /\ lastPort' = <<k, out>>
          /\ preErr' = k
          /\ IF IsFailFast(k)
             THEN /\ result' = RunErr(k)
                  /\ mainPc' = "done"
             ELSE /\ result' = result
                  /\ mainPc' = "racing"
    /\ UNCHANGED <<timeout, containerReady, discVars, monVars, pipeVars,
                   chanVars, timer, spinVars>>

\* OpenUI, lines 166-190: make the channel, start the discovery goroutine and
\* the pipeline goroutine, print the banner
StartRacing ==
    /\ mainPc = "racing"
    /\ containerReady' = Ready(preErr)
    /\ discPc' = "query"
    /\ pipePc' = IF Ready(preErr) THEN "addr" ELSE "poll"
    /\ mainPc' = "spinner"
    /\ UNCHANGED <<timeout, result, preErr, portVars, configQueries, services,
                   monVars, address, probeCount, probed, opened, openedAt,
                   chanVars, timer, spinVars>>

\* OpenUI, line 192
WantsSpinner(d) == d > SpinnerThreshold

\* OpenUI, lines 192-195: startSpinner starts printLoop, Stop is deferred
StartSpinner ==
    /\ mainPc = "spinner"
    /\ spinPc' = IF WantsSpinner(timeout) THEN "select" ELSE spinPc
    /\ mainPc' = "select"
    /\ UNCHANGED <<timeout, result, preErr, containerReady, portVars, discVars,
                   monVars, pipeVars, chanVars, timer, stopCalls>>

\* a sender leaves its send
Release(g) ==
    /\ discPc' = IF g = DiscId THEN "done" ELSE discPc
    /\ pipePc' = IF g = PipeId THEN "done" ELSE pipePc
    /\ monPc' = [i \in DOMAIN monPc |->
                    IF g = MonId(i) THEN "done" ELSE monPc[i]]

\* OpenUI, lines 197-202, entering the select: time.After starts the timer; a
\* sender that already waits is received, otherwise OpenUI parks
EnterSelect ==
    /\ mainPc = "select"
    /\ timer' = "armed"
    /\ IF sendq # <<>>
       THEN LET n == NextSender(sendq)
            IN /\ received' = Append(received, sendq[n].val)
               /\ result' = sendq[n].val
               /\ sendq' = [j \in 1..(Len(sendq) - 1) |->
                               IF j < n THEN sendq[j] ELSE sendq[j + 1]]
               /\ Release(sendq[n].from)
               /\ Leave
       ELSE /\ mainPc' = "parked"
            /\ UNCHANGED <<received, result, sendq, discPc, pipePc, monPc,
                           stopCalls>>
    /\ UNCHANGED <<timeout, preErr, containerReady, portVars, configQueries,
                   services, monTicks, address, probeCount, probed,
                   opened, openedAt, firstSend, sendCount, spinPc>>

\* variant: the message does not carry the configured duration
TimeoutResultNoDuration(d) == TimeoutErr(0)

\* the value the select's timeout case returns
TimeoutResult(d) == TimeoutErr(d)

\* the timer fires while OpenUI is parked in the select, which takes the
\* timeout case (a timer that fires after OpenUI left the select is read by
\* nobody and changes nothing)
TimerFire ==
    /\ timer = "armed"
    /\ mainPc = "parked"
    /\ timer' = "fired"
    /\ result' = TimeoutResult(timeout)
    /\ Leave
    /\ UNCHANGED <<timeout, preErr, containerReady, portVars, discVars,
                   monVars, pipeVars, chanVars, spinPc>>

\* ----------------------------------------------------------------- spinner
\* printLoop, the default case: print a frame, sleep, advance i. The frame
\* index only selects the glyph printed and is not kept.
SpinnerFrame ==
    /\ spinPc = "select"
    /\ mainPc # "stopping"
    /\ UNCHANGED vars

\* Stop's send on s.stop meets printLoop's receive: printLoop prints the
\* message and returns, Stop returns and with it OpenUI
SpinnerStop ==
    /\ spinPc = "select"
    /\ mainPc = "stopping"
    /\ spinPc' = "stopped"
    /\ mainPc' = "done"
    /\ UNCHANGED <<timeout, result, preErr, containerReady, portVars, discVars,
                   monVars, pipeVars, chanVars, timer, stopCalls>>

\* --------------------------------------------------------------- runMonitor
\* variant: the return after the failed query is missing
ServicesOfIgnoringError(failed, out) == Split(TrimSpace(out), <<NL>>)

\* the services to monitor: none when the query failed
ServicesOf(failed, out) ==
    IF failed THEN <<>> ELSE Split(TrimSpace(out), <<NL>>)

\* runMonitor, lines 142-155: the discovery goroutine, its query answered
\* with (failed, out)
DiscoverWith(failed, out) ==
    /\ discPc = "query"
    /\ configQueries' = configQueries + 1
    /\ LET found == ServicesOf(failed, out)
       IN /\ services' = found
          /\ monPc' = [i \in 1..Len(found) |-> "poll"]
          /\ monTicks' = [i \in 1..Len(found) |-> 0]
    /\ IF failed
       THEN /\ Send(DiscId, ServicesErr)
            /\ discPc' = AfterSend
       ELSE /\ NoSend
            /\ discPc' = "done"
    /\ UNCHANGED <<timeout, preErr, containerReady, portVars, pipeVars, timer,
                   spinPc>>

Discover ==
    \E failed \in BOOLEAN :
    \E out \in (IF failed THEN {<<>>} ELSE ServicesOutputs) :
       DiscoverWith(failed, out)

\* variant: ghsync is missing from the list
AllowListWithoutGhsync == {gitcollector}

\* the services that may exit with code 0
AllowList == {ghsync, gitcollector}

\* variant: return code 0 is a clean exit for every service
RECURSIVE VerdictCleanExitForAll(_, _)
VerdictCleanExitForAll(service, matches) ==
    IF matches = <<>> THEN NoErr
    ELSE LET state == Head(matches)
         IN IF HasPrefix(state, ExitWord) /\ Drop(state, Len(ExitSpace)) # Zero
            THEN IF service \notin AllowList
                 THEN StateErr(service, state)
                 ELSE ExitErr(service, Drop(state, Len(ExitSpace)))
            ELSE VerdictCleanExitForAll(service, Tail(matches))

\* runMonitorService, lines 112-136: the error the loop over the matches
\* sends, NoErr when it sends none
RECURSIVE Verdict(_, _)
Verdict(service, matches) ==
    IF matches = <<>> THEN NoErr
    ELSE LET state == Head(matches)
         IN IF HasPrefix(state, ExitWord)
            THEN IF service \notin AllowList
                 THEN StateErr(service, state)
                 ELSE LET returnCode == Drop(state, Len(ExitSpace))
                      IN IF returnCode # Zero
                         THEN ExitErr(service, returnCode)
                         ELSE Verdict(service, Tail(matches))
            ELSE IF state # UpWord
                 THEN StateErr(service, state)
                 ELSE Verdict(service, Tail(matches))

\* variant: an answer without any status line is reported as a state
PassSignalNoMatchIsError(service, out) ==
    IF FindAllStates(TrimSpace(out)) = <<>>
    THEN StateErr(service, <<>>)
    ELSE Verdict(service, FindAllStates(TrimSpace(out)))

\* runMonitorService, lines 110-136: the signal of one pass of the loop whose
\* query succeeded and wrote out, NoErr when the pass sends none
PassSignal(service, out) == Verdict(service, FindAllStates(TrimSpace(out)))

\* PassSignal, tabulated over the names and answers the model draws
ServiceNames ==
    UNION {{Split(TrimSpace(o), <<NL>>)[j] :
               j \in 1..Len(Split(TrimSpace(o), <<NL>>))} : o \in ServicesOutputs}

SignalTable ==
    [service \in ServiceNames |-> [out \in PsOutputs |-> PassSignal(service, out)]]

\* variant: what the query wrote is examined before its error
TickSignalOutputFirst(service, failed, out) ==
    IF PassSignal(service, out) # NoErr THEN PassSignal(service, out)
    ELSE IF failed THEN StatusErr(service) ELSE NoErr

\* runMonitorService, lines 102-136: the signal of one pass of the loop whose
\* query was answered with (failed, out)
TickSignal(service, failed, out) ==
    IF failed THEN StatusErr(service) ELSE SignalTable[service][out]

\* runMonitorService, lines 102-139: one pass of the loop of monitor i; after
\* a pass that sends nothing the monitor sleeps and polls again
MonitorTickWith(i, failed, out) ==
    /\ monPc[i] = "poll"
    /\ monTicks[i] < MaxTicks
    /\ monTicks' = [monTicks EXCEPT ![i] = @ + 1]
    /\ LET v == TickSignal(services[i], failed, out)
       IN IF v = NoErr
          THEN /\ NoSend
               /\ monPc' = monPc
          ELSE /\ Send(MonId(i), v)
               /\ monPc' = [monPc EXCEPT ![i] = AfterSend]
    /\ UNCHANGED <<timeout, preErr, containerReady, portVars, discVars,
                   pipeVars, timer, spinPc>>

MonitorTick(i) ==
    \E failed \in BOOLEAN :
    \E out \in (IF failed THEN PsFailOutputs ELSE PsOutputs) :
       MonitorTickWith(i, failed, out)

\* ---------------------------------------------------------------- pipeline
\* variant: the loop also waits for non-empty output
PollDoneOnOutput(k, out) == k = "nil" /\ TrimSpace(out) # <<>>

\* waitForContainer's loop ends
PollDone(k, out) == k = "nil"

\* waitForContainer, lines 71-80: one pass of the loop, its query answered
\* with (k, out); after a failed query it sleeps and queries again
PollWith(k, out) ==
    /\ pipePc = "poll"
    /\ portQueries < 1 + MaxPolls
    /\ portQueries' = portQueries + 1
    /\ stdout' = stdout \o out
    /\ lastPort' = <<k, out>>
    /\ pipePc' = IF PollDone(k, out) THEN "addr" ELSE "poll"
    /\ UNCHANGED <<mainVars, discVars, monVars, address, probeCount, probed,
                   opened, openedAt, chanVars, timer, spinVars>>

Poll == \E k \in PollKinds : \E out \in PortOutputs(k) : PollWith(k, out)

\* OpenUI, lines 176-180
ReadAddress ==
    /\ pipePc = "addr"
    /\ address' = TrimSpace(stdout)
    /\ IF address' = <<>>
       THEN /\ Send(PipeId, PortErr)
            /\ pipePc' = AfterSend
       ELSE /\ NoSend
            /\ pipePc' = "probe"
    /\ UNCHANGED <<timeout, preErr, containerReady, portVars, discVars,
                   monVars, probeCount, probed, opened, openedAt, timer,
                   spinPc>>

\* variant: the bind-all host is not replaced
ConnectUrlUnchanged(addr) == HttpScheme \o addr

\* openUI, line 39
ConnectUrl(addr) == HttpScheme \o ReplaceFirst(addr, BindAll, Loopback)

\* client.Get rejects a URL with a space or a control character in it
UrlValid(url) == \A i \in 1..Len(url) : ~IsSpace(url[i])

\* openUI, lines 41-48: one pass of the probe loop; after a failed probe it
\* sleeps and probes again
Probe ==
    /\ pipePc = "probe"
    /\ probeCount < MaxProbes
    /\ probeCount' = probeCount + 1
    /\ \E ok \in (IF UrlValid(ConnectUrl(address)) THEN BOOLEAN ELSE {FALSE}) :
          /\ probed' = IF ok THEN probed \cup {ConnectUrl(address)} ELSE probed
          /\ pipePc' = IF ok THEN "open" ELSE "probe"
    /\ UNCHANGED <<mainVars, portVars, discVars, monVars, address, opened,
                   openedAt, chanVars, timer, spinVars>>

\* openUI, lines 50-54, and OpenUI, line 182: open the browser, send the result
OpenBrowser ==
    /\ pipePc = "open"
    /\ opened' = Append(opened, ConnectUrl(address))
    /\ openedAt' = Append(openedAt, mainPc)
    /\ \E ok \in BOOLEAN :
          Send(PipeId, IF ok THEN NilErr ELSE BrowserErr)
    /\ pipePc' = AfterSend
    /\ UNCHANGED <<timeout, preErr, containerReady, portVars, discVars,
                   monVars, address, probeCount, probed, timer, spinPc>>

\* ------------------------------------------------------------ specification
Next ==
    \/ PreCheck
    \/ StartRacing
    \/ StartSpinner
    \/ EnterSelect
    \/ TimerFire
    \/ SpinnerFrame
    \/ SpinnerStop
    \/ Discover
    \/ \E i \in DOMAIN monPc : MonitorTick(i)
    \/ Poll
    \/ ReadAddress
    \/ Probe
    \/ OpenBrowser

Spec == Init /\ [][Next]_vars

\* The Go scheduler runs every runnable goroutine and the runtime fires the
\* timer: OpenUI's own steps, the timer and the spinner's receive are taken
\* when they stay enabled.
FairSpec ==
    /\ Spec
    /\ WF_vars(PreCheck)
    /\ WF_vars(StartRacing)
    /\ WF_vars(StartSpinner)
    /\ WF_vars(EnterSelect)
    /\ WF_vars(TimerFire)
    /\ WF_vars(SpinnerStop)

\* ------------------------------------------------------------------ claims
Range(q) == {q[j] : j \in DOMAIN q}

\* OpenUI has left the select: its result is decided
Left == mainPc \in {"stopping", "done"}

\* OpenUI entered the racing phase and has left the select
RaceOver == Left /\ preErr \notin EnvKinds

\* the values of the senders that wait in ch's send queue
Waiting == {e.val : e \in Range(sendq)}

\* C1: when the pre-check query fails with an environment error kind, OpenUI
\* has returned exactly that error and nothing else was or is ever started: no
\* discovery query, no status query, no pipeline, no spinner, no send, and
\* the pre-check is the only port query of the run.
C1_FailFast ==
    preErr \in EnvKinds =>
        /\ mainPc = "done"
        /\ result = RunErr(preErr)
        /\ portQueries = 1
        /\ configQueries = 0
        /\ discPc = "idle"
        /\ monPc = <<>>
        /\ pipePc = "idle"
        /\ probeCount = 0
        /\ opened = <<>>
        /\ spinPc = "off"
        /\ timer = "idle"
        /\ firstSend = NoSendYet

C1_Witness == mainPc = "done" /\ preErr = "ErrNotValid"

\* C2: OpenUI acts on exactly one outcome: it receives at most one message
\* from ch, and once it has left the select its result is either that one
\* message's value (and the timeout case was not taken) or the timeout error
\* (and nothing was received), however many senders signalled.
C2_OneOutcome ==
    /\ Len(received) <= 1
    /\ RaceOver =>
          \/ /\ Len(received) = 1
             /\ result = received[1]
             /\ timer # "fired"
          \/ /\ received = <<>>
             /\ result = TimeoutErr(timeout)
             /\ timer = "fired"

\* two further senders signalled after the one OpenUI acted on
C2_Witness ==
    /\ mainPc = "done"
    /\ Len(received) = 1
    /\ result = received[1]
    /\ Len(sendq) >= 2

\* C3: no sender is left blocked on ch: when OpenUI has left the select, after
\* which nothing receives from ch any more, no goroutine waits in a send.
C3_NoSenderLeftBlocked == Left => sendq = <<>>

\* C4: when the first signal of the run is a monitor's failure, sent before
\* the pipeline's signal and before the timeout fired, the result of OpenUI is
\* that failure: not nil, not the timeout, not a later signal.
C4_FirstSignalWins ==
    (RaceOver /\ firstSend.from[1] = "mon" /\ ~firstSend.late) =>
        /\ result = firstSend.val
        /\ result # NilErr
        /\ result # TimeoutErr(timeout)

\* a monitor signalled first, the pipeline's success came later and waits
C4_Witness ==
    /\ mainPc = "done"
    /\ firstSend.from[1] = "mon"
    /\ NilErr \in Waiting
    /\ result = firstSend.val

\* C5: in the racing phase, when nobody has sent a signal, OpenUI leaves the
\* select only through the timeout case: the timer has fired and the result
\* is the timeout error with the configured duration; and OpenUI does return,
\* also when the spinner was started and has to be stopped first.
C5_TimeoutSafe ==
    (RaceOver /\ firstSend = NoSendYet) =>
        /\ timer = "fired"
        /\ result = TimeoutErr(timeout)
        /\ result.after \in Timeouts

ExpectedUrl(addr) ==
    HttpScheme \o (IF HasPrefix(addr, BindAll)
                   THEN Loopback \o Drop(addr, Len(BindAll))
                   ELSE addr)

LoopbackUrl == HttpScheme \o Loopback \o PortSuffix
LanUrl == HttpScheme \o LanHost \o PortSuffix

\* C6: whenever OpenUI has returned nil, the browser was opened exactly once,
\* before OpenUI left the select, with http://<address> in which the bind-all
\* host is replaced by 127.0.0.1 and any other host is unchanged, and a probe
\* of that same URL had received a response.
C6_SuccessPath ==
    (mainPc = "done" /\ result = NilErr) =>
        /\ Len(opened) = 1
        /\ openedAt[1] \in {"spinner", "select", "parked"}
        /\ opened[1] = ExpectedUrl(address)
        /\ address = BindAll \o PortSuffix => opened[1] = LoopbackUrl
        /\ address = LanHost \o PortSuffix => opened[1] = LanUrl
        /\ opened[1] \in probed

C6_Witness ==
    /\ mainPc = "done"
    /\ result = NilErr
    /\ address = BindAll \o PortSuffix
    /\ opened = <<LoopbackUrl>>

\* the discovery query failed: its error was sent
DiscoveryFailed ==
    \/ discPc = "blocked"
    \/ ServicesErr \in Range(received)

\* C7: the discovery query is issued at most once, exactly once as soon as the
\* discovery goroutine has run, and never in a run that failed fast; monitors
\* exist and status queries are issued only after the discovery query
\* returned without error.
C7_DiscoveryOnce ==
    /\ configQueries <= 1
    /\ discPc \in {"idle", "query"} => configQueries = 0 /\ monPc = <<>>
    /\ discPc \in {"blocked", "done"} => configQueries = 1
    /\ monPc # <<>> =>
          /\ discPc = "done"
          /\ ~DiscoveryFailed
          /\ configQueries = 1
          /\ Len(monPc) = Len(services)
    /\ DOMAIN monTicks = DOMAIN monPc

\* both monitors of a two-service stack have queried, after the one discovery
C7_Witness ==
    /\ configQueries = 1
    /\ Len(monTicks) = 2
    /\ monTicks[1] >= 1
    /\ monTicks[2] >= 1

\* C8: the polling discovery re-issues the port query exactly when the
\* pre-check failed with a non-environment error. When the pre-check
\* succeeded the pre-check stays the only port query, and the address that is
\* probed and opened is the pre-check's (trimmed) output.
C8_Repoll ==
    /\ portQueries >= 2 => preErr = "other"
    /\ (preErr = "other" /\ pipePc \notin {"idle", "poll"}) => portQueries >= 2
    /\ preErr = "nil" =>
          /\ portQueries = 1
          /\ stdout \in PortOkOutputs
          /\ pipePc \notin {"idle", "addr"} => address = TrimSpace(stdout)
          /\ probed \subseteq {ExpectedUrl(TrimSpace(stdout))}
          /\ Range(opened) \subseteq {ExpectedUrl(TrimSpace(stdout))}

C8_Witness ==
    /\ preErr = "nil"
    /\ portQueries = 1
    /\ probed = {LanUrl}
    /\ pipePc = "done"

\* C9, as stated: the polling discovery never stops on a query that succeeded
\* with empty output, and an empty address is not reported as an error.
C9_Original_PollsUntilNonEmpty ==
    ~(preErr = "other" /\ address = <<>> /\ pipePc \in {"blocked", "done"})

\* C9, amended: the polling discovery polls again after every failed query and
\* stops at the first query that succeeds, whatever it wrote; when the
\* trimmed buffer is then empty the pipeline sends the terminal 'could not
\* find the public port' error and neither polls nor probes.
C9_StopsAtFirstSuccess ==
    /\ [][\A k \in PollKinds : \A out \in PortOutputs(k) :
             PollWith(k, out) =>
                 IF k = "nil" THEN pipePc' = "addr" ELSE pipePc' = "poll"]_vars
    /\ [][(ReadAddress /\ TrimSpace(stdout) = <<>>) =>
             /\ pipePc' \in {"blocked", "done"}
             /\ PortErr \in {e.val : e \in Range(sendq')} \cup Range(received')
             /\ probeCount' = 0]_vars

\* a poll succeeded with empty output and the pipeline reported the error
C9_Witness ==
    /\ preErr = "other"
    /\ portQueries >= 2
    /\ address = <<>>
    /\ pipePc \in {"blocked", "done"}
    /\ PortErr \in Waiting \cup Range(received)

\* the claim's healthy answers: every matched line is Up, or the service is
\* ghsync or gitcollector and every matched line is Up or Exit 0
Healthy(service, out) ==
    LET states == Range(FindAllStates(TrimSpace(out)))
    IN \/ states \subseteq {UpWord}
       \/ /\ service \in {ghsync, gitcollector}
          /\ states \subseteq {UpWord, ExitSpace \o Zero}

HealthyTable ==
    [service \in ServiceNames |-> [out \in PsOutputs |-> Healthy(service, out)]]

\* C10: a pass of a monitor whose status query succeeds with a healthy answer
\* sends nothing on ch and leaves the monitor in its loop, to query again
\* after the interval.
C10_HealthyKeepsPolling ==
    [][\A i \in DOMAIN monPc : \A out \in PsOutputs :
          (MonitorTickWith(i, FALSE, out) /\ HealthyTable[services[i]][out]) =>
              /\ monPc'[i] = "poll"
              /\ sendq' = sendq
              /\ received' = received
              /\ firstSend' = firstSend
              /\ result' = result]_vars

\* the ghsync monitor and the other monitor both queried twice, no signal
C10_Witness ==
    /\ Len(monPc) = 2
    /\ services[1] = ghsync
    /\ monTicks[1] = 2
    /\ monTicks[2] = 2
    /\ monPc[1] = "poll"
    /\ monPc[2] = "poll"
    /\ firstSend = NoSendYet

\* this step executed the send of v by goroutine g: handed to OpenUI parked
\* in the select, or g now waits at the end of the send queue
SentNow(g, v) ==
    /\ sendCount' # sendCount
    /\ IF Receiving(mainPc)
       THEN received' = Append(received, v)
       ELSE sendq' = Append(sendq, [from |-> g, val |-> v])

\* the states `Exit <code>` the status pattern matches in an answer
ExitStates(out) ==
    {st \in Range(FindAllStates(TrimSpace(out))) : HasPrefix(st, ExitSpace)}

MayExitClean(service) == service \in {ghsync, gitcollector}

\* the matched exits that are errors for the service: every exit of a service
\* that may not exit, every exit with a code other than 0 of one that may
FatalExits(service, out) ==
    {st \in ExitStates(out) :
        ~(MayExitClean(service) /\ Drop(st, Len(ExitSpace)) = <<"0">>)}

FatalTable ==
    [service \in ServiceNames |->
        [out \in PsOutputs |-> FatalExits(service, out)]]

\* the error C11 expects for a fatal exit
ExitSignal(service, st) ==
    IF MayExitClean(service)
    THEN Err("exited with return code", service, Drop(st, Len(ExitSpace)), 0)
    ELSE Err("is in state", service, st, 0)

\* C11: a pass of a monitor whose answer holds a matched `Exit <code>` that is
\* not a clean exit of an allow-listed service sends an error naming the
\* service and leaves the loop: for ghsync and gitcollector the error carries
\* the non-zero code, for any other service it is sent for every code, 0
\* included.
C11_ExitIsTerminal ==
    [][\A i \in DOMAIN monPc : \A out \in PsOutputs :
          (MonitorTickWith(i, FALSE, out) /\ FatalTable[services[i]][out] # {}) =>
              /\ monPc'[i] \in {"blocked", "done"}
              /\ \E st \in FatalTable[services[i]][out] :
                    SentNow(MonId(i), ExitSignal(services[i], st))]_vars

\* ghsync exited with 137 and bblfsh with 0: both monitors sent their error
C11_Witness ==
    /\ Err("exited with return code", ghsync, <<"1","3","7">>, 0)
          \in Waiting \cup Range(received)
    /\ Err("is in state", bblfsh, ExitSpace \o <<"0">>, 0)
          \in Waiting \cup Range(received)

\* an answer in which no line can match the status pattern: it is empty, or
\* holds neither of the words Up and Exit
NoStatusLine(out) ==
    \/ out = <<>>
    \/ Index(out, UpWord) = 0 /\ Index(out, ExitWord) = 0

NoStatusTable == [out \in PsOutputs |-> NoStatusLine(out)]

\* C12: a pass of a monitor whose status query succeeds with an empty answer,
\* or with one in which no line matches the status pattern, sends nothing on
\* ch and leaves the monitor in its loop, to query again.
C12_NoMatchKeepsPolling ==
    [][\A i \in DOMAIN monPc : \A out \in PsOutputs :
          (MonitorTickWith(i, FALSE, out) /\ NoStatusTable[out]) =>
              /\ monPc'[i] = "poll"
              /\ monTicks'[i] = monTicks[i] + 1
              /\ sendCount' = sendCount
              /\ sendq' = sendq
              /\ received' = received
              /\ result' = result]_vars

\* the only monitor of the run, of a service that may not exit, made both of
\* its passes without a send while the pipeline still waits for the port
C12_Witness ==
    /\ Len(monPc) = 1
    /\ services[1] = bblfsh
    /\ monTicks[1] = 2
    /\ monPc[1] = "poll"
    /\ sendCount = <<>>
    /\ pipePc = "poll"

\* the pipeline has read the address: the port query that succeeded is the
\* latest one, no port query follows it
AddressRead == pipePc \in {"probe", "open", "blocked", "done"}

\* C13: when the port query that succeeded wrote nothing but white space, the
\* pipeline sends the 'could not find the public port' error, probes nothing
\* and never opens the browser.
C13_EmptyPortIsError ==
    (AddressRead /\ lastPort[1] = "nil" /\ TrimSpace(lastPort[2]) = <<>>) =>
        /\ PortErr \in Waiting \cup Range(received)
        /\ probeCount = 0
        /\ opened = <<>>

\* the service names an answer of `config --services` holds, in order: its
\* lines that are not empty
NamesIn(out) ==
    SelectSeq(Split(TrimSpace(out), <<NL>>), LAMBDA line : line # <<>>)

\* C14: a discovery query that succeeds starts one monitor for each service
\* name in its answer and no other, so none at all, and no status query, when
\* the answer holds no name.
C14_MonitorsMatchNames ==
    [][\A out \in ServicesOutputs :
          DiscoverWith(FALSE, out) =>
              /\ services' = NamesIn(out)
              /\ DOMAIN monPc' = DOMAIN services'
              /\ \A i \in DOMAIN monPc' : monPc'[i] = "poll"]_vars

\* the sends of the list-of-services error that were executed
ServicesErrSends ==
    Cardinality({j \in DOMAIN sendq : sendq[j].val = ServicesErr})
    + Cardinality({j \in DOMAIN received : received[j] = ServicesErr})

\* C15: a discovery query that fails makes the discovery goroutine send the
\* 'cannot get list of services' error once and stop; the run then has no
\* monitor and no status query, and the discovery goroutine sends in no
\* other case.
C15_DiscoveryFailureIsTerminal ==
    /\ [][DiscoverWith(TRUE, <<>>) =>
             /\ SentNow(DiscId, ServicesErr)
             /\ discPc' \in {"blocked", "done"}]_vars
    /\ [](DiscId \in DOMAIN sendCount =>
             /\ sendCount[DiscId] = 1
             /\ ServicesErrSends = 1
             /\ discPc \in {"blocked", "done"}
             /\ configQueries = 1
             /\ services = <<>>
             /\ monPc = <<>>
             /\ monTicks = <<>>)
    /\ [](DiscId \notin DOMAIN sendCount => ServicesErrSends = 0)

\* the discovery error is the result OpenUI returned
C15_Witness ==
    /\ mainPc = "done"
    /\ result = ServicesErr
    /\ discPc = "done"
    /\ monPc = <<>>

\* C16: a pass of a monitor whose status query fails sends the error wrapped
\* with the service name, whatever the query wrote, and ends the monitor: it
\* leaves the loop and queries no more.
C16_StatusFailureIsTerminal ==
    /\ [][\A i \in DOMAIN monPc : \A out \in PsFailOutputs :
             MonitorTickWith(i, TRUE, out) =>
                 /\ SentNow(MonId(i),
                            Err("cannot get status service", services[i], <<>>, 0))
                 /\ monPc'[i] \in {"blocked", "done"}]_vars
    /\ [][\A i \in DOMAIN monPc :
             monPc[i] \in {"blocked", "done"} =>
                 /\ i \in DOMAIN monPc'
                 /\ monPc'[i] \in {"blocked", "done"}
                 /\ monTicks'[i] = monTicks[i]]_vars

\* the failed first status query of the ghsync monitor is the run's result and
\* the monitor stopped after that one query
C16_Witness ==
    /\ mainPc = "done"
    /\ result = Err("cannot get status service", ghsync, <<>>, 0)
    /\ Len(monPc) = 2
    /\ monPc[1] = "done"
    /\ monTicks[1] = 1

\* C17: the spinner is started only in the racing phase and only when the
\* timeout exceeds 5 seconds; once started, its stop handle is invoked exactly
\* once, when OpenUI leaves the select by a message or by the timeout, the
\* call completes and the render task ends: none is left when OpenUI has
\* returned.
C17_SpinnerStoppedOnce ==
    /\ [](spinPc # "off" =>
             /\ timeout > 5
             /\ preErr \notin EnvKinds
             /\ mainPc \in {"select", "parked", "stopping", "done"})
    /\ [](stopCalls = IF spinPc # "off" /\ Left THEN 1 ELSE 0)
    /\ [](mainPc = "done" => spinPc \in {"off", "stopped"})
    /\ [](spinPc = "stopped" => mainPc = "done" /\ stopCalls = 1)
    /\ (spinPc = "select" ~> (spinPc = "stopped" /\ mainPc = "done"))

\* a run with the long timeout ended by the timer: the spinner was stopped
C17_Witness ==
    /\ timeout = LongTimeout
    /\ mainPc = "done"
    /\ result = TimeoutErr(LongTimeout)
    /\ spinPc = "stopped"
    /\ stopCalls = 1

\* goroutine g has executed a send on ch
HasSent(g) == g \in DOMAIN sendCount

\* C18: every source (the pipeline, the discovery goroutine, each monitor)
\* executes at most one send on ch in a run, and a source that has sent is
\* finished: a monitor issues no status query after its send, the pipeline no
\* port query, probe or browser call, whether its signal was received
\* ("done") or not ("blocked").
C18_OneSendPerSource ==
    /\ [](\A g \in DOMAIN sendCount : sendCount[g] = 1)
    /\ [](\A i \in DOMAIN monPc :
             HasSent(MonId(i)) <=> monPc[i] \in {"blocked", "done"})
    /\ [](HasSent(PipeId) <=> pipePc \in {"blocked", "done"})
    /\ [][\A i \in DOMAIN monPc :
             HasSent(MonId(i)) =>
                 /\ i \in DOMAIN monTicks'
                 /\ monTicks'[i] = monTicks[i]
                 /\ HasSent(MonId(i))']_vars
    /\ [][HasSent(PipeId) =>
             /\ portQueries' = portQueries
             /\ probeCount' = probeCount
             /\ opened' = opened
             /\ HasSent(PipeId)']_vars

\* both monitors and the pipeline have sent, each after a single query; one
\* monitor's signal was received, the other senders wait for ever
C18_Witness ==
    /\ Len(monPc) = 2
    /\ monPc[1] = "done"
    /\ monPc[2] = "blocked"
    /\ monTicks[1] = 1
    /\ monTicks[2] = 1
    /\ pipePc = "blocked"
    /\ mainPc = "done"

\* C19: the browser is opened only while OpenUI has not returned, and a run
\* in which it was opened returns the pipeline's own signal (nil, or the
\* browser error): after a timeout or a monitor's or the discovery's error
\* the abandoned pipeline opens nothing.
C19_BrowserOnlyBeforeReturn ==
    /\ \A j \in DOMAIN openedAt : openedAt[j] # "done"
    /\ (mainPc = "done" /\ opened # <<>>) => result \in {NilErr, BrowserErr}

\* C20: the address that is probed is the trimmed output of the one port
\* query that succeeded; what the failed pre-check or failed polls wrote is
\* no part of it.
C20_AddressIsSuccessfulOutput ==
    (AddressRead /\ address # <<>>) =>
        /\ lastPort[1] = "nil"
        /\ address = TrimSpace(lastPort[2])
        /\ \A url \in probed : url = ExpectedUrl(TrimSpace(lastPort[2]))

====
